---- MODULE Spec2Model ----
(***************************************************************************)
(* A model of the App component of src/src/App.js: the user list (Store),  *)
(* the modal form (draft), the pagination and the one fetch issued at      *)
(* mount.  Every event handler is one action; React re-renders after each  *)
(* event, so a handler reads the state left by the previous event.         *)
(*                                                                         *)
(* Strings are sequences of one-character strings, so that "" is <<>> and  *)
(* String.split can be computed.  The blank id "" of the draft is Blank.   *)
(***************************************************************************)
EXTENDS Integers, Sequences, FiniteSets, TLC

VARIABLES
    users,        \* useState([])          App.js:7
    showModal,    \* useState(false)       App.js:8
    formData,     \* useState({id:"",...}) App.js:9-15
    error,        \* useState("")          App.js:16
    editing,      \* useState(false)       App.js:17
    currentPage,  \* useState(1)           App.js:18
    fetchState,   \* position of fetchUsers: "pending", "resolved", "rejected"
    response,     \* what axios.get will answer (the message in flight)
    lastEvent,    \* history: the handler that ran last
    addRun,       \* history: ids assigned by handleAddUser since the Store
                  \* last lost or replaced records
    deletedTop    \* history: the id the last Delete removed, when that id was
                  \* the highest of the Store, kept until an Add assigns
                  \* another id or the fetch resolves; Blank otherwise

vars == <<users, showModal, formData, error, editing, currentPage,
          fetchState, response, lastEvent, addRun, deletedTop>>

----------------------------------------------------------------------------
(* Bounds of the model *)

MaxUsers == 3
MaxId == 4
MaxUsersPages == 7
MaxIdPages == 7
MaxNameLen == 5

----------------------------------------------------------------------------
(* Values *)

usersPerPage == 5

Blank == -1

SP == " "
A == <<"A">>
B == <<"B">>
E == <<"e">>
X == <<"X">>
General == <<"G", "e", "n", "e", "r", "a", "l">>

NoError == ""
FetchError == "Failed to fetch users."
ValidationError == "All fields must be filled out!"

EmptyForm ==
    [id |-> Blank, firstName |-> <<>>, lastName |-> <<>>, email |-> <<>>,
     department |-> <<>>]

FieldNames == {"firstName", "lastName", "email", "department"}

(* JavaScript truthiness of a string and of an id (a number or "") *)
TruthyStr(s) == s # <<>>
TruthyId(i) == i # Blank /\ i # 0

----------------------------------------------------------------------------
(* Pure helpers *)

RECURSIVE SeqMax(_, _, _)
(* users.reduce((max, user) => (user.id > max ? user.id : max), 0) *)
SeqMax(us, i, max) ==
    IF i > Len(us) THEN max
    ELSE SeqMax(us, i + 1, IF us[i].id > max THEN us[i].id ELSE max)

NewIdNoIncrement(us) == SeqMax(us, 1, 0)
NewIdByLength(us) == Len(us) + 1
NewId(us) == SeqMax(us, 1, 0) + 1

(* String.prototype.split(sep): the tokens between the separators *)
Split(s, sep) ==
    LET F[i \in 0..Len(s)] ==
          IF i = 0 THEN << <<>> >>
          ELSE IF s[i] = sep THEN Append(F[i - 1], <<>>)
          ELSE [F[i - 1] EXCEPT ![Len(F[i - 1])] = Append(@, s[i])]
    IN F[Len(s)]

(* user.name.split(" ")[0] *)
FirstNameOf(name) == Split(name, SP)[1]

(* user.name.split(" ")[1] || "" *)
LastNameOf(name) ==
    LET t == Split(name, SP)
    IN IF Len(t) >= 2 /\ TruthyStr(t[2]) THEN t[2] ELSE <<>>

FormatUser(user) ==
    [id |-> user.id, firstName |-> FirstNameOf(user.name),
     lastName |-> LastNameOf(user.name), email |-> user.email,
     department |-> General]

FormattedUsers(data) == [i \in 1..Len(data) |-> FormatUser(data[i])]

UsersAfterResolutionMerged(us, data) == us \o FormattedUsers(data)
(* setUsers(formattedUsers): the list replaces whatever the Store held *)
UsersAfterResolution(us, data) == FormattedUsers(data)

(* the presence check of handleAddUser *)
InvalidIgnoresDepartment(fd) ==
    ~TruthyStr(fd.firstName) \/ ~TruthyStr(fd.lastName) \/ ~TruthyStr(fd.email)
Invalid(fd) ==
    \/ ~TruthyStr(fd.firstName)
    \/ ~TruthyStr(fd.lastName)
    \/ ~TruthyStr(fd.email)
    \/ ~TruthyStr(fd.department)

NewUser(fd, id) ==
    [id |-> id, firstName |-> fd.firstName, lastName |-> fd.lastName,
     email |-> fd.email, department |-> fd.department]

AppendedFirst(us, fd) == <<NewUser(fd, NewId(us))>> \o us
Appended(us, fd) == Append(us, NewUser(fd, NewId(us)))

UpdatedUser(fd) ==
    [id |-> fd.id, firstName |-> fd.firstName, lastName |-> fd.lastName,
     email |-> fd.email, department |-> fd.department]

FormOfWithoutId(user) ==
    [id |-> Blank, firstName |-> user.firstName, lastName |-> user.lastName,
     email |-> user.email, department |-> user.department]
(* the draft handleOpenModal(user) sets for a record *)
FormOf(user) ==
    [id |-> user.id, firstName |-> user.firstName, lastName |-> user.lastName,
     email |-> user.email, department |-> user.department]

(* users.map((user) => (user.id === formData.id ? updatedUser : user)) *)
EditedAll(us, fd) == [i \in 1..Len(us) |-> UpdatedUser(fd)]
Edited(us, fd) ==
    [i \in 1..Len(us) |-> IF us[i].id = fd.id THEN UpdatedUser(fd) ELSE us[i]]

RECURSIVE FilterOut(_, _)
(* users.filter((user) => user.id !== id) *)
FilterOut(us, id) ==
    IF us = <<>> THEN <<>>
    ELSE IF Head(us).id # id THEN <<Head(us)>> \o FilterOut(Tail(us), id)
    ELSE FilterOut(Tail(us), id)

DeletedTail(us, id) == IF us = <<>> THEN <<>> ELSE SubSeq(us, 1, Len(us) - 1)
Deleted(us, id) == FilterOut(us, id)

Min(a, b) == IF a < b THEN a ELSE b

(* Array.prototype.slice(start, end) with 0-based start, end exclusive *)
Slice(us, start, end) == SubSeq(us, start + 1, Min(end, Len(us)))

PageSliceOverlapping(us, page) ==
    Slice(us, (page - 1) * (usersPerPage - 1),
          (page - 1) * (usersPerPage - 1) + usersPerPage)
(* paginateUsers with currentPage = page *)
PageSlice(us, page) ==
    LET startIndex == (page - 1) * usersPerPage
    IN Slice(us, startIndex, startIndex + usersPerPage)

(* Math.ceil(users.length / usersPerPage) *)
PageCount(us) == (Len(us) + usersPerPage - 1) \div usersPerPage

paginateUsers == PageSlice(users, currentPage)

CurrentPageAfterDeleteClamped(us, page) ==
    IF page > PageCount(us) /\ page > 1 THEN page - 1 ELSE page
(* currentPage after handleDeleteUser: no setCurrentPage is called *)
CurrentPageAfterDelete(us, page) == page

UsersAfterRejectionCleared(us) == <<>>
(* users after the catch branch of fetchUsers: no setUsers is called *)
UsersAfterRejection(us) == us

ErrorAfterAddCleared(err) == NoError
(* error after a successful handleAddUser: no setError is called *)
ErrorAfterAdd(err) == err

ClosedFormCleared(fd) == EmptyForm
(* formData after handleCloseModal: no setFormData is called *)
ClosedForm(fd) == fd

----------------------------------------------------------------------------
(* Inputs *)

Item(i, n) == [id |-> i, name |-> n, email |-> E]

Rejected == [ok |-> FALSE, data |-> <<>>]
Resolved(d) == [ok |-> TRUE, data |-> d]

Responses ==
    { Rejected,
      Resolved(<<Item(1, A \o <<SP>> \o B), Item(2, A \o <<SP>> \o B)>>),
      Resolved(<<Item(3, A \o <<SP>> \o B), Item(0, A)>>) }

FormInputs ==
    { <<"firstName", <<>> >>, <<"firstName", A>>, <<"lastName", B>>,
      <<"email", E>>, <<"department", X>> }

----------------------------------------------------------------------------
(* Initial state: after the first render; useEffect has issued the fetch *)

InitWith(R) ==
    /\ users = <<>>
    /\ showModal = FALSE
    /\ formData = EmptyForm
    /\ error = NoError
    /\ editing = FALSE
    /\ currentPage = 1
    /\ fetchState = "pending"
    /\ response \in R
    /\ lastEvent = "mount"
    /\ addRun = <<>>
    /\ deletedTop = Blank

Init == InitWith(Responses)

----------------------------------------------------------------------------
(* Actions *)

fetchUsersResolvedOnEveryRender ==
    /\ fetchState \in {"pending", "resolved"}
    /\ response.ok
    /\ users' = UsersAfterResolution(users, response.data)
    /\ fetchState' = "resolved"
    /\ lastEvent' = "fetchResolved"
    /\ addRun' = <<>>
    /\ deletedTop' = Blank
    /\ UNCHANGED <<showModal, formData, error, editing, currentPage, response>>

(* fetchUsers, the try branch: lines 27-35 *)
fetchUsersResolved ==
    /\ fetchState = "pending"
    /\ response.ok
    /\ users' = UsersAfterResolution(users, response.data)
    /\ fetchState' = "resolved"
    /\ lastEvent' = "fetchResolved"
    /\ addRun' = <<>>
    /\ deletedTop' = Blank
    /\ UNCHANGED <<showModal, formData, error, editing, currentPage, response>>

(* fetchUsers, the catch branch: lines 36-38 *)
fetchUsersRejected ==
    /\ fetchState = "pending"
    /\ ~response.ok
    /\ error' = FetchError
    /\ fetchState' = "rejected"
    /\ lastEvent' = "fetchRejected"
    /\ users' = UsersAfterRejection(users)
    /\ UNCHANGED <<showModal, formData, editing, currentPage, response,
                   addRun, deletedTop>>

(* handleFormChange: an input of the modal form changes *)
handleFormChange(name, value) ==
    /\ showModal
    /\ formData' = [formData EXCEPT ![name] = value]
    /\ lastEvent' = "change"
    /\ UNCHANGED <<users, showModal, error, editing, currentPage, fetchState,
                   response, addRun, deletedTop>>

(* handleAddUser: Save while the modal is in Add mode *)
handleAddUser(maxUsers, maxId) ==
    /\ showModal
    /\ ~editing
    /\ IF Invalid(formData)
       THEN /\ error' = ValidationError
            /\ lastEvent' = "addRejected"
            /\ UNCHANGED <<users, showModal, formData, addRun, deletedTop>>
       ELSE /\ Len(users) < maxUsers
            /\ NewId(users) <= maxId
            /\ users' = Appended(users, formData)
            /\ showModal' = FALSE
            /\ formData' = EmptyForm
            /\ lastEvent' = "add"
            /\ addRun' = Append(addRun, users'[Len(users')].id)
            /\ deletedTop' = IF users'[Len(users')].id = deletedTop
                             THEN deletedTop ELSE Blank
            /\ error' = ErrorAfterAdd(error)
    /\ UNCHANGED <<editing, currentPage, fetchState, response>>

handleEditUserValidated ==
    /\ showModal
    /\ editing
    /\ IF Invalid(formData)
       THEN /\ error' = ValidationError
            /\ UNCHANGED <<users, editing, showModal, formData>>
       ELSE /\ users' = Edited(users, formData)
            /\ editing' = FALSE
            /\ showModal' = FALSE
            /\ formData' = EmptyForm
            /\ UNCHANGED error
    /\ lastEvent' = IF \E i \in 1..Len(users) : users[i].id = formData.id
                    THEN "edit" ELSE "editMiss"
    /\ UNCHANGED <<currentPage, fetchState, response, addRun, deletedTop>>

(* handleEditUser: Save while the modal is in Edit mode *)
handleEditUser ==
    /\ showModal
    /\ editing
    /\ users' = Edited(users, formData)
    /\ editing' = FALSE
    /\ showModal' = FALSE
    /\ formData' = EmptyForm
    /\ lastEvent' = IF \E i \in 1..Len(users) : users[i].id = formData.id
                    THEN "edit" ELSE "editMiss"
    /\ UNCHANGED <<error, currentPage, fetchState, response, addRun,
                   deletedTop>>

(* handleDeleteUser(user.id): the Delete button of a rendered row *)
handleDeleteUser(id) ==
    /\ \E i \in 1..Len(paginateUsers) : paginateUsers[i].id = id
    /\ users' = Deleted(users, id)
    /\ lastEvent' = "delete"
    /\ addRun' = <<>>
    /\ deletedTop' = IF \A i \in 1..Len(users') : users'[i].id < id
                     THEN id ELSE Blank
    /\ currentPage' = CurrentPageAfterDelete(users', currentPage)
    /\ UNCHANGED <<showModal, formData, error, editing, fetchState, response>>

(* handleOpenModal(user): the Edit button of a rendered row *)
handleOpenModal(user) ==
    /\ IF TruthyId(user.id)
       THEN /\ editing' = TRUE
            /\ formData' = FormOf(user)
       ELSE /\ editing' = FALSE
            /\ formData' = EmptyForm
    /\ showModal' = TRUE
    /\ lastEvent' = "open"
    /\ UNCHANGED <<users, error, currentPage, fetchState, response, addRun,
                   deletedTop>>

(* handleOpenModal(): the Add User button *)
handleOpenModalAdd ==
    /\ editing' = FALSE
    /\ formData' = EmptyForm
    /\ showModal' = TRUE
    /\ lastEvent' = "openAdd"
    /\ UNCHANGED <<users, error, currentPage, fetchState, response, addRun,
                   deletedTop>>

(* handleCloseModal: Cancel, the close button or onHide *)
handleCloseModal ==
    /\ showModal
    /\ showModal' = FALSE
    /\ error' = NoError
    /\ formData' = ClosedForm(formData)
    /\ lastEvent' = "close"
    /\ UNCHANGED <<users, editing, currentPage, fetchState, response, addRun,
                   deletedTop>>

(* setCurrentPage(num + 1): a rendered Pagination.Item is clicked *)
setCurrentPage(page) ==
    /\ page \in 1..PageCount(users)
    /\ currentPage' = page
    /\ lastEvent' = "page"
    /\ UNCHANGED <<users, showModal, formData, error, editing, fetchState,
                   response, addRun, deletedTop>>

Next ==
    \/ fetchUsersResolved
    \/ fetchUsersRejected
    \/ \E in \in FormInputs : handleFormChange(in[1], in[2])
    \/ handleAddUser(MaxUsers, MaxId)
    \/ handleEditUser
    \/ \E i \in 1..Len(paginateUsers) : handleDeleteUser(paginateUsers[i].id)
    \/ \E i \in 1..Len(paginateUsers) : handleOpenModal(paginateUsers[i])
    \/ handleOpenModalAdd
    \/ handleCloseModal
    \/ \E p \in 1..PageCount(users) : setCurrentPage(p)

Spec == Init /\ [][Next]_vars

----------------------------------------------------------------------------
(* The same handlers over a Store of more than one page: the remote list    *)
(* has six items and the form inputs are the values of a valid draft.       *)

PagesResponses ==
    { Rejected,
      Resolved([i \in 1..(usersPerPage + 1) |-> Item(i, A \o <<SP>> \o B)]) }

PagesFormInputs ==
    { <<"firstName", A>>, <<"lastName", B>>, <<"email", E>>,
      <<"department", General>> }

InitPages == InitWith(PagesResponses)

NextPages ==
    \/ fetchUsersResolved
    \/ fetchUsersRejected
    \/ \E in \in PagesFormInputs : handleFormChange(in[1], in[2])
    \/ handleAddUser(MaxUsersPages, MaxIdPages)
    \/ handleEditUser
    \/ \E i \in 1..Len(paginateUsers) : handleDeleteUser(paginateUsers[i].id)
    \/ \E i \in 1..Len(paginateUsers) : handleOpenModal(paginateUsers[i])
    \/ handleOpenModalAdd
    \/ handleCloseModal
    \/ \E p \in 1..PageCount(users) : setCurrentPage(p)

SpecPages == InitPages /\ [][NextPages]_vars

----------------------------------------------------------------------------
(* The fetch alone, for every name up to MaxNameLen over the alphabet of a  *)
(* letter and the space: the remote list has two items.                     *)

RECURSIVE Names(_)
Names(n) ==
    IF n = 0 THEN { <<>> }
    ELSE Names(n - 1) \cup
         { Append(w, c) : w \in { v \in Names(n - 1) : Len(v) = n - 1 },
                          c \in {"a", SP} }

FetchResponses ==
    { Rejected } \cup
    { Resolved(<<Item(7, n), Item(2, A \o <<SP>> \o B)>>) : n \in Names(MaxNameLen) }

InitFetch == InitWith(FetchResponses)

NextFetch ==
    \/ fetchUsersResolved
    \/ fetchUsersRejected

SpecFetch == InitFetch /\ [][NextFetch]_vars

----------------------------------------------------------------------------
(* Vocabulary of the properties *)

Ids(us) == { us[i].id : i \in 1..Len(us) }

MaxOf(S) == CHOOSE m \in S : \A x \in S : x <= m

(* a draft with all four fields non-empty *)
AllFilled(fd) == \A f \in FieldNames : fd[f] # <<>>

(* us without its k-th record *)
RemoveAt(us, k) == SubSeq(us, 1, k - 1) \o SubSeq(us, k + 1, Len(us))

(* the record a draft stands for *)
RecordOf(fd) ==
    [id |-> fd.id, firstName |-> fd.firstName, lastName |-> fd.lastName,
     email |-> fd.email, department |-> fd.department]

SaveInAddMode == lastEvent' \in {"add", "addRejected"}
SaveInEditMode == lastEvent' \in {"edit", "editMiss"}

(* the slices of pages 1..n one after the other *)
RECURSIVE ConcatPages(_, _)
ConcatPages(us, n) ==
    IF n = 0 THEN <<>> ELSE ConcatPages(us, n - 1) \o PageSlice(us, n)

(* the place of the first space of a name, 0 if it has none *)
FirstSpace(name) ==
    IF \E i \in 1..Len(name) : name[i] = SP
    THEN CHOOSE i \in 1..Len(name) :
            name[i] = SP /\ \A j \in 1..(i - 1) : name[j] # SP
    ELSE 0

BeforeFirstSpace(name) ==
    IF FirstSpace(name) = 0 THEN name ELSE SubSeq(name, 1, FirstSpace(name) - 1)

AfterFirstSpace(name) ==
    IF FirstSpace(name) = 0 THEN <<>>
    ELSE SubSeq(name, FirstSpace(name) + 1, Len(name))

----------------------------------------------------------------------------
(* C1: in every reachable state no two records of the Store have the same   *)
(* id, whatever fetch completion, Add, Edit, Delete, open, close and page   *)
(* events came before.                                                      *)
C1_UniqueIds ==
    \A i, j \in 1..Len(users) : users[i].id = users[j].id => i = j

(* a Store of three records after the fetch resolved and an Add followed *)
C1_Witness ==
    /\ fetchState = "resolved"
    /\ lastEvent = "add"
    /\ Len(users) = 3

(* C2: Save in Add mode with all four fields non-empty appends exactly one  *)
(* record at the end of the Store, with id max(existing ids) + 1 (1 if the  *)
(* Store is empty) and the draft's fields; the records before it and their  *)
(* order are unchanged, the modal is closed and the draft is empty.         *)
C2_AddAppends ==
    [][ (SaveInAddMode /\ AllFilled(formData)) =>
          /\ lastEvent' = "add"
          /\ Len(users') = Len(users) + 1
          /\ SubSeq(users', 1, Len(users)) = users
          /\ users'[Len(users')] =
                [RecordOf(formData) EXCEPT
                   !.id = IF users = <<>> THEN 1 ELSE MaxOf(Ids(users)) + 1]
          /\ showModal' = FALSE
          /\ formData' = EmptyForm ]_vars

(* the Store with ids 1 and 2 received a record with id 3 *)
C2_Witness ==
    /\ lastEvent = "add"
    /\ Len(users) = 3
    /\ users[1].id = 1 /\ users[2].id = 2 /\ users[3].id = 3
    /\ users[3].firstName = A /\ users[3].department = X

(* C3: over a sequence of valid Adds the ids assigned are strictly          *)
(* increasing in the order of the Adds (hence pairwise different), and they *)
(* are the ids of the records at the end of the Store.                      *)
C3_AddIdsIncrease ==
    /\ \A i, j \in 1..Len(addRun) : i < j => addRun[i] < addRun[j]
    /\ Len(addRun) <= Len(users)
    /\ \A k \in 1..Len(addRun) :
          users[Len(users) - Len(addRun) + k].id = addRun[k]

(* three Adds in a row *)
C3_Witness == Len(addRun) = 3 /\ lastEvent = "add"

(* C4: Save in Add mode with at least one of the four fields empty leaves   *)
(* the Store unchanged, sets a non-empty error message, leaves the modal    *)
(* open and leaves the draft unchanged.                                     *)
C4_AddRejected ==
    [][ (SaveInAddMode /\ ~AllFilled(formData)) =>
          /\ users' = users
          /\ error' # NoError
          /\ showModal' = TRUE
          /\ formData' = formData ]_vars

(* a draft with only the department missing was refused *)
C4_Witness ==
    /\ lastEvent = "addRejected"
    /\ error = ValidationError
    /\ showModal
    /\ formData.firstName # <<>> /\ formData.lastName # <<>>
    /\ formData.email # <<>> /\ formData.department = <<>>
    /\ users # <<>>

(* C5: Save in Edit mode replaces exactly the record whose id is the        *)
(* draft's id by the draft's values, in place; the other records, the       *)
(* length and the order are unchanged; when no record has the draft's id    *)
(* the Store is unchanged.                                                  *)
C5_EditReplacesOne ==
    [][ SaveInEditMode =>
          LET hits == { i \in 1..Len(users) : users[i].id = formData.id }
          IN /\ Cardinality(hits) <= 1
             /\ Len(users') = Len(users)
             /\ \A i \in 1..Len(users) :
                   users'[i] = IF i \in hits THEN RecordOf(formData) ELSE users[i]
             /\ \A i \in 1..Len(users) : users'[i].id = users[i].id
             /\ hits = {} => users' = users ]_vars

(* an Edit that matched no record, in a Store that holds a record an        *)
(* earlier Edit changed (only an Edit gives a record an empty first name)   *)
C5_Witness ==
    /\ lastEvent = "editMiss"
    /\ Len(users) >= 2
    /\ \E i \in 1..Len(users) : users[i].firstName = <<>>
    /\ \E i \in 1..Len(users) : users[i].firstName # <<>>

(* C6: Delete(id) removes exactly one record, the one whose id is the given *)
(* id, if there is one, and leaves the other records and their order        *)
(* unchanged; if no record has that id the Store is unchanged.              *)
C6_DeleteRemovesOne ==
    [][ lastEvent' = "delete" =>
          /\ \A id \in 0..(MaxId + 1) :
                LET hits == { i \in 1..Len(users) : users[i].id = id }
                IN IF hits = {} THEN Deleted(users, id) = users
                   ELSE /\ Cardinality(hits) = 1
                        /\ \A k \in hits : Deleted(users, id) = RemoveAt(users, k)
          /\ \E k \in 1..Len(users) :
                /\ users' = RemoveAt(users, k)
                /\ users[k].id \notin Ids(users') ]_vars

(* the middle record of three was deleted *)
C6_Witness ==
    /\ lastEvent = "delete"
    /\ Len(users) = 2
    /\ users[1].id = 1 /\ users[2].id = 3

(* C7: with N records and page size 5 the number of selectable pages is    *)
(* ceil(N/5), the slice of page p is records (p-1)*5 .. (p-1)*5+5          *)
(* (0-based, end exclusive), and the slices of pages 1..ceil(N/5) put one   *)
(* after the other are the Store: nothing missing, doubled or reordered.    *)
C7_PagesCoverStore ==
    LET N == Len(users)
        pages == PageCount(users)
    IN /\ pages * usersPerPage >= N
       /\ (pages - 1) * usersPerPage < N \/ (pages = 0 /\ N = 0)
       /\ { p \in 1..(N + 1) : ENABLED setCurrentPage(p) } = 1..pages
       /\ \A p \in 1..(pages + 1) :
             LET lo == (p - 1) * usersPerPage
                 shown == { i \in 0..(N - 1) : lo <= i /\ i < lo + usersPerPage }
             IN /\ Len(PageSlice(users, p)) = Cardinality(shown)
                /\ \A k \in 1..Len(PageSlice(users, p)) :
                      PageSlice(users, p)[k] = users[lo + k]
       /\ ConcatPages(users, pages) = users

(* seven records on two pages, the second one shown *)
C7_Witness ==
    /\ Len(users) = 7
    /\ PageCount(users) = 2
    /\ currentPage = 2
    /\ Len(paginateUsers) = 2

(* C8: a fetch that succeeds turns every remote item into one record with   *)
(* the same id and email, department "General", firstName the part of the   *)
(* name before its first space and lastName the part after it (empty when   *)
(* the name has no space), for every name, in the remote order.             *)
C8_SplitOnFirstSpace ==
    fetchState = "resolved" =>
        /\ Len(users) = Len(response.data)
        /\ \A i \in 1..Len(users) :
              users[i] = [id |-> response.data[i].id,
                          firstName |-> BeforeFirstSpace(response.data[i].name),
                          lastName |-> AfterFirstSpace(response.data[i].name),
                          email |-> response.data[i].email,
                          department |-> General]

(* C9 as stated: after a failed fetch the error message is the fetch-failure *)
(* message and the Store is empty, whatever was done while it was pending.  *)
C9_StoreEmptyAfterFailure ==
    lastEvent = "fetchRejected" => (error = FetchError /\ users = <<>>)

(* C9 amended: a failed fetch sets the fetch-failure message and leaves the  *)
(* Store exactly as it was (empty only if no Add was committed while the    *)
(* fetch was pending); the fetch is settled once and never issued again.    *)
C9_FailureKeepsStore ==
    [][ /\ lastEvent' = "fetchRejected" =>
              (error' = FetchError /\ users' = users /\ ~response.ok)
        /\ fetchState # "pending" => fetchState' = fetchState
        /\ fetchState' # fetchState => lastEvent' \in {"fetchResolved", "fetchRejected"}
      ]_vars

(* the fetch failed after two Adds were committed *)
C9_Witness ==
    /\ lastEvent = "fetchRejected"
    /\ error = FetchError
    /\ Len(users) = 2

C11_OpenSelectsMode ==
    [][ /\ lastEvent' = "openAdd" =>
              (editing' = FALSE /\ formData' = EmptyForm /\ showModal' = TRUE)
        /\ lastEvent' = "open" =>
              /\ editing' = TRUE
              /\ showModal' = TRUE
              /\ \E i \in 1..Len(users) : RecordOf(formData') = users[i]
        /\ SaveInAddMode => editing = FALSE
        /\ SaveInEditMode => editing = TRUE ]_vars

(* C12: the current page changes only when a page number is selected, and  *)
(* then to the selected page: Add, Edit, Delete, fetch completion and       *)
(* opening or closing the modal leave it as it is, with no clamping.        *)
C12_PageChangesOnlyBySelect ==
    [][ /\ currentPage' # currentPage => lastEvent' = "page"
        /\ lastEvent' = "page" => currentPage' \in 1..PageCount(users)
        /\ lastEvent' # "page" => currentPage' = currentPage ]_vars

(* the last page was selected and all its records deleted: the current page *)
(* is beyond the page count and the slice is empty, the Store is not        *)
C12_Witness ==
    /\ lastEvent = "delete"
    /\ currentPage = 2
    /\ PageCount(users) = 1
    /\ paginateUsers = <<>>
    /\ Len(users) = usersPerPage

(* C13: a fetch that succeeds replaces the Store wholesale: right after it  *)
(* resolves the Store is exactly the mapped remote list, whatever user      *)
(* events were processed while it was pending, and no record the Store held *)
(* before (a record added meanwhile) is in it any more.                     *)
C13_FetchReplacesStore ==
    [][ lastEvent' = "fetchResolved" =>
          /\ Len(users') = Len(response.data)
          /\ \A i \in 1..Len(users') :
                /\ users'[i].id = response.data[i].id
                /\ users'[i].email = response.data[i].email
                /\ users'[i].firstName = FirstNameOf(response.data[i].name)
                /\ users'[i].lastName = LastNameOf(response.data[i].name)
                /\ users'[i].department = General
          /\ \A i \in 1..Len(users) : \A j \in 1..Len(users') :
                users'[j] # users[i] ]_vars

(* the fetch resolved while the modal was open in Edit mode on a record an  *)
(* Add had created (only those have department X): the Store is the mapped  *)
(* list and the record is gone                                              *)
C13_Witness ==
    /\ lastEvent = "fetchResolved"
    /\ showModal /\ editing
    /\ formData.id = 1 /\ formData.department = X
    /\ Len(users) = 2
    /\ \A i \in 1..Len(users) : users[i].department = General

(* C14 as stated: when the record with the highest id is deleted and a      *)
(* valid Add follows, the new record receives the id the deleted record     *)
(* had, an id greater than every id present in the Store at that moment.    *)
C14_AddReusesDeletedTop ==
    [][ (lastEvent' = "add" /\ addRun = <<>> /\ deletedTop # Blank) =>
          /\ users'[Len(users')].id = deletedTop
          /\ \A id \in Ids(users) : users'[Len(users')].id > id ]_vars

(* C14 amended: every Add assigns an id greater than every id present in    *)
(* the Store at that moment, namely the highest of them plus 1 (1 if the    *)
(* Store is empty); when it follows the Delete of the record with the       *)
(* highest id, the new id is the deleted id again exactly when the highest  *)
(* remaining id is one less than the deleted id (or the Store became empty  *)
(* and the deleted id was 1), and another id otherwise.                     *)
C14_AddAfterDelete ==
    [][ lastEvent' = "add" =>
          LET new == users'[Len(users')].id
              top == IF users = <<>> THEN 0 ELSE MaxOf(Ids(users))
          IN /\ \A id \in Ids(users) : new > id
             /\ new = top + 1
             /\ (addRun = <<>> /\ deletedTop # Blank) =>
                   (new = deletedTop <=> top = deletedTop - 1) ]_vars

(* the record with the highest id, 3, was deleted and the next Add assigned *)
(* 3 again, over a Store that still holds 1 and 2                           *)
C14_Witness ==
    /\ lastEvent = "add"
    /\ deletedTop = 3
    /\ addRun = <<3>>
    /\ Len(users) = 3
    /\ users[1].id = 1 /\ users[2].id = 2

(* C15: Save in Edit mode and Delete never set the error message and always *)
(* complete, for every draft: an Edit with empty fields is committed to the *)
(* Store like any other (no presence check), closes the modal and clears    *)
(* the draft.                                                               *)
C15_EditAndDeleteNeverFail ==
    [][ /\ (showModal /\ editing) => ENABLED handleEditUser
        /\ SaveInEditMode =>
              /\ error' = error
              /\ showModal' = FALSE
              /\ formData' = EmptyForm
              /\ Len(users') = Len(users)
              /\ \A i \in 1..Len(users) :
                    users[i].id = formData.id => users'[i] = RecordOf(formData)
        /\ lastEvent' = "delete" =>
              (error' = error /\ Len(users') = Len(users) - 1) ]_vars

(* an Edit was committed with an empty first name (only an Edit leaves a    *)
(* record without one), the modal is closed and no error is shown           *)
C15_Witness ==
    /\ lastEvent = "edit"
    /\ showModal = FALSE
    /\ formData = EmptyForm
    /\ error = NoError
    /\ Len(users) = 1
    /\ users[1].firstName = <<>>

(* C16: the one fetch issued at mount settles at most once, as a success or  *)
(* as a failure; once it has settled no Loader event happens any more, so   *)
(* every later change of the Store is made by an Add, an Edit or a Delete   *)
(* and every later change of the error message by a Save or a close.        *)
C16_LoaderActsOnce ==
    [][ /\ lastEvent' \in {"fetchResolved", "fetchRejected"} =>
              /\ fetchState = "pending"
              /\ fetchState' = IF response.ok THEN "resolved" ELSE "rejected"
        /\ fetchState # "pending" =>
              /\ fetchState' = fetchState
              /\ users' # users => lastEvent' \in {"add", "edit", "delete"}
              /\ error' # error => lastEvent' \in {"addRejected", "close"} ]_vars

(* after the fetch resolved the Store was changed by a Delete and an Add *)
C16_Witness ==
    /\ fetchState = "resolved"
    /\ lastEvent = "add"
    /\ Len(users) = 2
    /\ users[1].department = General
    /\ users[2].department = X

(* C17: whenever the modal is open the editing flag is true exactly when    *)
(* the draft's id is not blank; a field change alters neither the draft's   *)
(* id nor the flag (nor does any event but an open or a commit), so a Save  *)
(* in Add mode carries no id and a Save in Edit mode carries the id the     *)
(* modal was opened with.                                                   *)
C17_EditingIffDraftHasId ==
    [][ /\ showModal' => (editing' <=> formData'.id # Blank)
        /\ lastEvent' \notin {"open", "openAdd", "add", "edit", "editMiss"} =>
              (formData'.id = formData.id /\ editing' = editing)
        /\ lastEvent' = "change" =>
              \E f \in FieldNames :
                 \A g \in (FieldNames \ {f}) \cup {"id"} : formData'[g] = formData[g]
        /\ SaveInAddMode => formData.id = Blank
        /\ SaveInEditMode => (formData.id # Blank /\ TruthyId(formData.id)) ]_vars

(* the modal is open in Edit mode on record 3 and its first name was        *)
(* cleared in the form: the draft still carries id 3                        *)
C17_Witness ==
    /\ showModal /\ editing
    /\ lastEvent = "change"
    /\ formData.id = 3
    /\ formData.firstName = <<>>
    /\ \E i \in 1..Len(users) : users[i].id = 3 /\ users[i].firstName = A

(* C18 as stated: the error message is reset to empty only by Cancel/close; *)
(* a successful Add, Edit or Delete and opening the modal leave it as it    *)
(* is; a fetch-failure message stays until the modal is next closed.        *)
C18_ErrorStaysUntilClose ==
    [][ /\ (error # NoError /\ error' = NoError) => lastEvent' = "close"
        /\ lastEvent' \in {"add", "edit", "editMiss", "delete", "open", "openAdd"} =>
              error' = error
        /\ (error = FetchError /\ error' # FetchError) => lastEvent' = "close" ]_vars

(* C18 amended: the error message is reset to empty only by Cancel/close; a *)
(* successful Add, Edit or Delete, opening the modal, a field change and a  *)
(* page selection leave it as it is; a message on display, the              *)
(* fetch-failure message included, stays until the modal is next closed or  *)
(* another failure (a refused Add, the failing fetch) replaces it by its    *)
(* own message.                                                             *)
C18_ErrorClearedOnlyByClose ==
    [][ /\ (error # NoError /\ error' = NoError) => lastEvent' = "close"
        /\ lastEvent' \in {"add", "edit", "editMiss", "delete", "open", "openAdd",
                           "change", "page", "fetchResolved"} =>
              error' = error
        /\ lastEvent' = "close" => error' = NoError
        /\ lastEvent' = "addRejected" => error' = ValidationError
        /\ lastEvent' = "fetchRejected" => error' = FetchError ]_vars

(* a refused Add was followed by a successful one: the modal is closed and  *)
(* the validation message is still shown                                    *)
C18_Witness ==
    /\ lastEvent = "add"
    /\ showModal = FALSE
    /\ error = ValidationError
    /\ users # <<>>

====
